---- MODULE Spec2Model ----
(***************************************************************************)
(* A model of pydantic-prompter (src/src/pydatic_prompter/prompter.py).    *)
(*                                                                         *)
(* Text is a sequence of tokens.  The characters the code itself inspects  *)
(* (">", " ", newline, ":", "-", the quote) are one token each, so that    *)
(* str.split(">> "), str.strip() and json.dumps act on them as they do on  *)
(* characters; a word ("system", "hello") and a placeholder ("{q}",        *)
(* "{{q}}") are one token each.                                            *)
(***************************************************************************)
EXTENDS Naturals, Sequences, FiniteSets, TLC

VARIABLES
    pc,         \* position of the program
    llmName,    \* Prompter.__init__ argument llm
    hasLlm,     \* whether the Prompter object has the attribute self.llm
    jinja,      \* Prompter.jinja / _Pr.jinja
    segs,       \* the turn segments the docstring was written from
    lead,       \* whether the docstring starts with the turn delimiter
    doc,        \* function.__doc__
    ann,        \* function.__annotations__.get("return")
    parser,     \* _Pr.parser
    inputs,     \* **inputs of the invocation
    failFirst,  \* the gateway stub fails on its first failFirst calls
    tries,      \* _tries of the retry decorator
    built,      \* outcome of the last build_prompt
    msgs,       \* local msgs of __call__
    retStr,     \* local ret_str of call_llm
    exc,        \* the exception the current attempt raised
    outcome,    \* what the invocation gave its caller
    gwLog,      \* what the gateway answered, call by call
    trace       \* the steps of the invocation, in order

vars == <<pc, llmName, hasLlm, jinja, segs, lead, doc, ann, parser, inputs,
          failFirst, tries, built, msgs, retStr, exc, outcome, gwLog, trace>>

\* ------------------------------------------------------------------ bounds
\* longest docstring, in turn segments, of the compilation specification
MaxSegs == 2
\* longest docstring, in turn segments, of the pipeline specification
MaxDocSegs == 2
\* largest number of leading failures of the gateway stub
MaxK == 4

\* ------------------------------------------------------- program constants
\* @retry(tries=3, ...)
Tries == 3
\* @retry(..., delay=1, ...)
Delay == 1

\* ------------------------------------------------------------------ tokens
SP == " "
NL == "\n"
QUOTE == "\""
GT == ">"
COLON == ":"
DASH == "-"
None == <<"None">>

\* the argument of y.split(">> ")
Delimiter == <<GT, GT, SP>>

Words == {"system", "user", "hello", "hi"}
Digits == {"5", "7"}
\* a placeholder of str.format and one of jinja2, both naming the binding q
FormatField == "{q}"
JinjaField == "{{q}}"
Names == {"q"}

\* ---------------------------------------------------------- str operations
IsPrefixAt(s, i, d) ==
    /\ i + Len(d) <= Len(s) + 1
    /\ SubSeq(s, i, i + Len(d) - 1) = d

RECURSIVE SplitFrom(_, _, _, _)
SplitFrom(s, d, i, cur) ==
    IF i > Len(s) THEN <<cur>>
    ELSE IF IsPrefixAt(s, i, d)
         THEN <<cur>> \o SplitFrom(s, d, i + Len(d), <<>>)
         ELSE SplitFrom(s, d, i + 1, Append(cur, s[i]))

\* str.split(d): the pieces between the leftmost non-overlapping occurrences
Split(s, d) == SplitFrom(s, d, 1, <<>>)

IsSpace(t) == t \in {SP, NL}

RECURSIVE LStrip(_)
LStrip(s) == IF s # <<>> /\ IsSpace(Head(s)) THEN LStrip(Tail(s)) ELSE s

RECURSIVE RStrip(_)
RStrip(s) ==
    IF s # <<>> /\ IsSpace(s[Len(s)]) THEN RStrip(SubSeq(s, 1, Len(s) - 1)) ELSE s

\* str.strip()
Strip(s) == RStrip(LStrip(s))

\* sub in s (substring test)
Contains(s, sub) == \E i \in 1..(Len(s) + 1) : IsPrefixAt(s, i, sub)

RECURSIVE Join(_, _)
\* sep.join(parts)
Join(sep, parts) ==
    IF parts = <<>> THEN <<>>
    ELSE IF Len(parts) = 1 THEN parts[1]
    ELSE parts[1] \o sep \o Join(sep, Tail(parts))

\* ------------------------------------------------------------- rendering
\* A binding is a value with its text form; a stateful one may raise from
\* __format__ / __str__ each time it is rendered.
BindingValues ==
    { [text |-> <<"hi">>, stateful |-> FALSE],
      [text |-> <<"5">>, stateful |-> FALSE],
      [text |-> <<"hi">>, stateful |-> TRUE] }

\* the keyword arguments of one invocation: a function on a subset of Names
Bindings == UNION { [D -> BindingValues] : D \in SUBSET Names }

Rendered(y) == [ok |-> TRUE, y |-> y, msg |-> <<>>, stage |-> "none"]
RenderError(m) == [ok |-> FALSE, y |-> <<>>, msg |-> m, stage |-> "template"]

\* str(KeyError(name))
KeyErrorMsg(name) == <<"'", name, "'">>
BindingErrorMsg == <<"binding raised">>

\* the text of a bound value, unless the value raises while it is rendered
ValueText(v, raises) ==
    IF v.stateful /\ raises THEN RenderError(BindingErrorMsg) ELSE Rendered(v.text)

\* a str.format field whose name has no binding: KeyError, silently empty
\* in the mutant
FormatMissingLenient(name) == Rendered(<<>>)
FormatMissing(name) == RenderError(KeyErrorMsg(name))

\* one token of the docstring under str.format: {q} is looked up in the
\* bindings, {{q}} is the escape of the literal text {q}
FormatToken(t, inp, raises) ==
    IF t = FormatField
    THEN IF "q" \in DOMAIN inp THEN ValueText(inp["q"], raises) ELSE FormatMissing("q")
    ELSE IF t = JinjaField THEN Rendered(<<FormatField>>)
    ELSE Rendered(<<t>>)

\* one token of the docstring under jinja2's Template.render: {{q}} prints
\* the binding, an undefined name prints as the empty string (jinja2's
\* default Undefined), {q} is plain text
JinjaToken(t, inp, raises) ==
    IF t = JinjaField
    THEN IF "q" \in DOMAIN inp THEN ValueText(inp["q"], raises) ELSE Rendered(<<>>)
    ELSE Rendered(<<t>>)

RECURSIVE RenderTokens(_, _, _, _)
RenderTokens(s, inp, j, raises) ==
    IF s = <<>> THEN Rendered(<<>>)
    ELSE LET here == IF j THEN JinjaToken(Head(s), inp, raises)
                     ELSE FormatToken(Head(s), inp, raises)
             rest == RenderTokens(Tail(s), inp, j, raises)
         IN  IF ~here.ok THEN here
             ELSE IF ~rest.ok THEN rest
             ELSE Rendered(here.y \o rest.y)

\* build_prompt, lines 129-133: the rendered text y, or the error of the
\* template engine
Render(d, inp, j, raises) == RenderTokens(d, inp, j, raises)

\* whether the template of mode j references the placeholder q
References(d, j) ==
    \E i \in 1..Len(d) : d[i] = (IF j THEN JinjaField ELSE FormatField)

\* ------------------------------------------------------------ yaml.safe_load
\* The loader on the documents the model's texts can form: unindented lines
\* of block mappings, block sequences and plain or flow scalars.
HasMappingIndicator(l) ==
    \E i \in 1..Len(l) : l[i] = COLON /\ (i = Len(l) \/ l[i + 1] = SP)

\* the value of a scalar node
ScalarValue(v) ==
    IF v = <<>> THEN [t |-> "null", v |-> <<>>]
    ELSE IF Len(v) = 1 /\ v[1] \in Digits THEN [t |-> "int", v |-> v]
    ELSE IF v = <<FormatField>>
    THEN [t |-> "dict", v |-> <<[key |-> "q", val |-> [t |-> "null", v |-> <<>>]]>>]
    ELSE IF Head(v) = FormatField THEN [t |-> "ParserError", v |-> v]
    ELSE IF Head(v) = GT \/ HasMappingIndicator(v)
            \/ (Head(v) = DASH /\ (Len(v) = 1 \/ v[2] = SP))
         THEN [t |-> "ScannerError", v |-> v]
    ELSE [t |-> "str", v |-> v]

IsError(node) == node.t \in {"ParserError", "ScannerError"}

\* one line of a block document: a mapping entry "key: value", a sequence
\* entry "- value", or a scalar
LineNode(l) ==
    IF Head(l) = GT THEN [k |-> "err", key |-> "", val |-> [t |-> "ScannerError", v |-> l]]
    ELSE IF Head(l) = DASH /\ (Len(l) = 1 \/ l[2] = SP)
    THEN [k |-> "item", key |-> "", val |-> ScalarValue(Strip(SubSeq(l, 3, Len(l))))]
    ELSE IF Len(l) >= 2 /\ Head(l) \in Words \cup Digits /\ l[2] = COLON
            /\ (Len(l) = 2 \/ l[3] = SP)
    THEN [k |-> "entry", key |-> Head(l), val |-> ScalarValue(Strip(SubSeq(l, 4, Len(l))))]
    ELSE [k |-> "scalar", key |-> "", val |-> ScalarValue(l)]

RECURSIVE NonBlank(_)
NonBlank(ls) ==
    IF ls = <<>> THEN <<>>
    ELSE IF Strip(Head(ls)) = <<>> THEN NonBlank(Tail(ls))
    ELSE <<RStrip(Head(ls))>> \o NonBlank(Tail(ls))

RECURSIVE DictPut(_, _, _)
\* d[key] = val on an insertion-ordered dict
DictPut(d, key, val) ==
    IF d = <<>> THEN <<[key |-> key, val |-> val]>>
    ELSE IF Head(d).key = key THEN <<[key |-> key, val |-> val]>> \o Tail(d)
    ELSE <<Head(d)>> \o DictPut(Tail(d), key, val)

RECURSIVE DictOf(_, _)
DictOf(nodes, d) ==
    IF nodes = <<>> THEN d
    ELSE DictOf(Tail(nodes), DictPut(d, Head(nodes).key, Head(nodes).val))

\* yaml.safe_load(line): the loaded object, or the error raised
safe_load(line) ==
    LET ls == NonBlank(Split(line, <<NL>>))
        nodes == [i \in 1..Len(ls) |-> LineNode(ls[i])]
        kinds == {nodes[i].k : i \in 1..Len(ls)}
    IN  IF ls = <<>> THEN [t |-> "null", v |-> <<>>]
        ELSE IF \E i \in 1..Len(ls) : IsError(nodes[i].val) /\ nodes[i].val.t = "ParserError"
        THEN [t |-> "ParserError", v |-> line]
        ELSE IF \E i \in 1..Len(ls) : IsError(nodes[i].val)
        THEN [t |-> "ScannerError", v |-> line]
        ELSE IF kinds = {"entry"} THEN [t |-> "dict", v |-> DictOf(nodes, <<>>)]
        ELSE IF kinds = {"item"}
        THEN [t |-> "list", v |-> [i \in 1..Len(ls) |-> nodes[i].val]]
        ELSE IF kinds = {"scalar"} /\ Len(ls) = 1 THEN nodes[1].val
        ELSE IF kinds = {"scalar"} THEN [t |-> "str", v |-> Join(<<SP>>, ls)]
        ELSE IF "item" \in kinds THEN [t |-> "ParserError", v |-> line]
        ELSE [t |-> "ScannerError", v |-> line]

\* ---------------------------------------------------------------- json.dumps
RECURSIVE JsonDumps(_)
RECURSIVE JsonEntries(_)
RECURSIVE JsonItems(_)
JsonEntries(d) ==
    IF d = <<>> THEN <<>>
    ELSE <<QUOTE, Head(d).key, QUOTE, COLON, SP>> \o JsonDumps(Head(d).val)
         \o (IF Len(d) = 1 THEN <<>> ELSE <<",", SP>> \o JsonEntries(Tail(d)))
JsonItems(l) ==
    IF l = <<>> THEN <<>>
    ELSE JsonDumps(Head(l))
         \o (IF Len(l) = 1 THEN <<>> ELSE <<",", SP>> \o JsonItems(Tail(l)))
\* the mutant of json.dumps: the text of the value as it stands
JsonDumpsRaw(node) == node.v
\* json.dumps(value)
JsonDumps(node) ==
    CASE node.t = "str" -> <<QUOTE>> \o node.v \o <<QUOTE>>
      [] node.t = "int" -> node.v
      [] node.t = "null" -> <<"null">>
      [] node.t = "dict" -> <<"{">> \o JsonEntries(node.v) \o <<"}">>
      [] node.t = "list" -> <<"[">> \o JsonItems(node.v) \o <<"]">>

\* ------------------------------------------------------------------ Message
\* Message(role=..., content=...)
Message(role, content) == [role |-> role, content |-> content]

\* Message.__str__
MessageStr(m) == <<m.role, COLON, SP>> \o m.content

\* ------------------------------------------------------------- build_prompt
RECURSIVE KeptLinesAll(_)
\* the mutant of the loop of lines 138-141: empty lines are loaded too
KeptLinesAll(pieces) ==
    IF pieces = <<>> THEN <<>>
    ELSE <<Strip(Head(pieces))>> \o KeptLinesAll(Tail(pieces))

RECURSIVE KeptLines(_)
\* lines 138-140: each piece stripped, the empty ones skipped
KeptLines(pieces) ==
    IF pieces = <<>> THEN <<>>
    ELSE IF Strip(Head(pieces)) = <<>> THEN KeptLines(Tail(pieces))
    ELSE <<Strip(Head(pieces))>> \o KeptLines(Tail(pieces))

\* the f-string of line 143
YamlFailure(y, line) ==
    <<NL, NL, "Failed to parse YAML: ", NL, NL>> \o y \o <<NL, NL>> \o line \o <<NL, NL>>

\* str(AttributeError) of item.keys() on an object that is no dict
AttributeErrorMsg(node) ==
    <<"'", (IF node.t = "null" THEN "NoneType" ELSE node.t), "'",
      " object has no attribute 'keys'">>

\* list(item.keys())[0] of an empty dict
IndexErrorMsg == <<"list index out of range">>

BuiltOk(y, ms) == [kind |-> "ok", msgs |-> ms, msg |-> <<>>, stage |-> "none", y |-> y]
BuiltError(stage, y, m) == [kind |-> "error", msgs |-> <<>>, msg |-> m, stage |-> stage, y |-> y]

\* lines 145-153: one Message for each loaded item, from its first key and
\* the dump of its first value
MessagesOf(y, y_list) ==
    LET bad == {i \in 1..Len(y_list) : y_list[i].t # "dict" \/ y_list[i].v = <<>>}
        first == CHOOSE i \in bad : \A k \in bad : i <= k
    IN  IF bad = {}
        THEN BuiltOk(y, [i \in 1..Len(y_list) |->
                 Message(y_list[i].v[1].key, JsonDumps(y_list[i].v[1].val))])
        ELSE IF y_list[first].t = "dict" THEN BuiltError("shape", y, IndexErrorMsg)
        ELSE BuiltError("shape", y, AttributeErrorMsg(y_list[first]))

\* lines 135-143: the rendered text split at the delimiter, each kept line
\* loaded; the first line the loader rejects raises with y and the line
LoadLines(y) ==
    LET lines == KeptLines(Split(y, Delimiter))
        loaded == [i \in 1..Len(lines) |-> safe_load(lines[i])]
        bad == {i \in 1..Len(lines) : IsError(loaded[i])}
        first == CHOOSE i \in bad : \A k \in bad : i <= k
    IN  IF bad = {} THEN MessagesOf(y, loaded)
        ELSE BuiltError("parse", y, YamlFailure(y, lines[first]))

\* _Pr.build_prompt(**inputs) on the docstring d in mode j
build_prompt(d, inp, j, raises) ==
    LET r == Render(d, inp, j, raises)
    IN  IF ~r.ok THEN BuiltError("template", <<>>, r.msg) ELSE LoadLines(r.y)

\* "\n".join(map(str, msgs))
JoinMessages(ms) == Join(<<NL>>, [i \in 1..Len(ms) |-> MessageStr(ms[i])])

\* _Pr.build_string(**inputs): the text, or the error build_prompt raised
build_string(d, inp, j, raises) ==
    LET b == build_prompt(d, inp, j, raises)
    IN  IF b.kind = "ok" THEN [ok |-> TRUE, text |-> JoinMessages(b.msgs), msg |-> <<>>,
                               stage |-> "none"]
        ELSE [ok |-> FALSE, text |-> <<>>, msg |-> b.msg, stage |-> b.stage]

\* ------------------------------------------------------------- docstrings
SegSystemHello == <<"system", COLON, SP, "hello", NL>>
SegUserField == <<"user", COLON, SP, FormatField>>
SegUserJinja == <<"user", COLON, SP, "hello", SP, JinjaField, NL>>
SegBlank == <<SP, NL>>
SegScalar == <<"hello">>
SegList == <<DASH, SP, "hi">>
SegTwoKeys == <<"user", COLON, SP, "hi", NL, "system", COLON, SP, "hello">>
SegNested == <<"user", COLON, SP, "hi", COLON, SP, "hello">>
SegUserFive == <<"user", COLON, SP, "5", NL>>
\* the template ">>system: hello\n>>user: {q}": no delimiter in it
SegNoSpace == <<GT, GT, "system", COLON, SP, "hello", NL, GT, GT, "user", COLON, SP, FormatField>>

SegmentPool ==
    { SegSystemHello, SegUserField, SegUserJinja, SegBlank, SegScalar, SegList,
      SegTwoKeys, SegNested, SegUserFive, SegNoSpace }

\* the segments the pipeline's docstrings are written from
PipelineSegments == { SegSystemHello, SegUserField, SegUserJinja, SegScalar, SegNested }

SegLists(pool, n) == UNION { [1..k -> pool] : k \in 0..n }

RECURSIVE MkDoc(_, _)
\* the docstring of segments ss: a delimiter between two segments, and one
\* before the first when ld
MkDoc(ss, ld) ==
    IF ss = <<>> THEN <<>>
    ELSE (IF ld THEN Delimiter ELSE <<>>) \o Head(ss) \o MkDoc(Tail(ss), TRUE)

\* ------------------------------------------------------------ return types
\* function.__annotations__.get("return"): no annotation, a pydantic model
\* class, a primitive-casting class, a type of neither kind
Annotations == {"none", "Answer", "int", "dict"}

\* isinstance(return_obj, ModelMetaclass)
IsModelClass(a) == a = "Answer"

\* AnnotationParser.get_parser(function): the parser class, or "raise"
get_parser(a) == IF IsModelClass(a) THEN "PydanticParser" ELSE "raise"

GetParserMsg == <<"Please make sure you annotate return type using Pydantic">>
NoLlmMsg == <<"'Prompter' object has no attribute 'llm'">>

\* llm_schema() of the parser p for the return class a: the dict of
\* pydantic_schema for a PydanticParser, the class name for a TypingParser
llm_schema(p, a) ==
    IF p = "PydanticParser"
    THEN [name |-> a, description |-> "", parameters |-> <<a, "schema">>]
    ELSE a

\* ---------------------------------------------------------------- gateway
JsonValue(d) == <<"{", QUOTE, "value", QUOTE, COLON, SP, d, "}">>
Malformed == <<"garbage">>
GatewayFail == <<"GatewayFail">>
GatewayErrorMsg == <<"GatewayError">>

\* the texts the gateway stub can return
Responses == {JsonValue(d) : d \in Digits} \cup {Malformed}

\* ------------------------------------------------------------ cast_result
CastOk(v) == [ok |-> TRUE, value |-> v, msg |-> <<>>]
CastError(m) == [ok |-> FALSE, value |-> None, msg |-> m]

\* the f-strings of lines 95 and 106
ValidateFailure(result) ==
    <<NL, NL, "Failed to validate JSON: ", NL, NL>> \o result \o <<NL, NL>>
ParseFailure(result) == <<NL, NL, "Failed to parse: ", NL, NL>> \o result \o <<NL, NL>>

\* the mutant of cast_result: the text is handed back as it came
cast_result_raw(p, result) == CastOk(result)

\* parser.cast_result(result): Answer.parse_raw(result) for a PydanticParser,
\* int(result) for a TypingParser
cast_result(p, result) ==
    IF p = "PydanticParser"
    THEN IF \E d \in Digits : result = JsonValue(d)
         THEN CastOk(<<"Answer", result[7]>>)
         ELSE CastError(ValidateFailure(result))
    ELSE IF Len(result) = 1 /\ result[1] \in Digits
         THEN CastOk(<<"int", result[1]>>)
         ELSE CastError(ParseFailure(result))

\* -------------------------------------------------------------- exceptions
NoExc == [msg |-> <<>>, stage |-> "none", orig |-> <<>>, enriched |-> FALSE,
          secondary |-> FALSE]
Raised(stage, m) == [msg |-> m, stage |-> stage, orig |-> m, enriched |-> FALSE,
                     secondary |-> FALSE]

PromptHeader == <<NL, NL, "Prompt:", NL, NL>>

\* the mutant of line 122: the error is raised again as it was
EnrichedBare(e, prompt) == e

\* line 122: str(e) + f"\n\nPrompt:\n\n{...}"
Enriched(e, prompt) == e \o PromptHeader \o prompt

\* the mutant of the decorator: one attempt fewer
GiveUpEarly(t) == t <= 1

\* retry's loop: the exception is raised to the caller once no tries are left
GiveUp(t) == t = 0

NoOutcome == [kind |-> "none", value |-> None, exc |-> NoExc]
NoBuilt == [kind |-> "none", msgs |-> <<>>, msg |-> <<>>, stage |-> "none", y |-> <<>>]

Providers == {"openai", "cohere"}

\* ------------------------------------------------------------------- Init
Blank ==
    /\ llmName = "" /\ hasLlm = FALSE /\ parser = "none" /\ ann = "none"
    /\ failFirst = 0 /\ tries = 0 /\ built = NoBuilt /\ msgs = <<>>
    /\ retStr = None /\ exc = NoExc /\ outcome = NoOutcome
    /\ gwLog = <<>> /\ trace = <<>>

\* the state before Prompter(...) is constructed, with a gateway stub set
\* to fail on its first failFirst calls
Init ==
    /\ pc = "start"
    /\ llmName = "" /\ hasLlm = FALSE /\ parser = "none" /\ ann = "none"
    /\ jinja = FALSE /\ segs = <<>> /\ lead = TRUE /\ doc = <<>>
    /\ inputs = <<>>
    /\ failFirst \in 0..MaxK
    /\ tries = 0 /\ built = NoBuilt /\ msgs = <<>>
    /\ retStr = None /\ exc = NoExc /\ outcome = NoOutcome
    /\ gwLog = <<>> /\ trace = <<>>

\* ---------------------------------------------------------------- actions
\* Prompter.__init__(llm, model_name, jinja)
PrompterInit ==
    /\ pc = "start"
    /\ \E name \in Providers, j \in BOOLEAN :
        /\ llmName' = name
        /\ jinja' = j
        /\ hasLlm' = (name = "openai")
    /\ pc' = "constructed"
    /\ UNCHANGED <<segs, lead, doc, ann, parser, inputs, failFirst, tries, built,
                   msgs, retStr, exc, outcome, gwLog, trace>>

\* Prompter.__call__(function) and _Pr.__init__: reading self.llm, then the
\* parser of the function's return annotation
PrompterCall ==
    /\ pc = "constructed"
    /\ \E ss \in SegLists(PipelineSegments, MaxDocSegs), a \in Annotations :
        /\ segs' = ss
        /\ doc' = MkDoc(ss, lead)
        /\ ann' = a
        /\ IF ~hasLlm
           THEN /\ pc' = "setup_error"
                /\ outcome' = [kind |-> "error", value |-> None,
                               exc |-> Raised("decorate", NoLlmMsg)]
                /\ parser' = parser
           ELSE IF get_parser(a) = "raise"
           THEN /\ pc' = "setup_error"
                /\ outcome' = [kind |-> "error", value |-> None,
                               exc |-> Raised("get_parser", GetParserMsg)]
                /\ parser' = parser
           ELSE /\ pc' = "ready"
                /\ parser' = get_parser(a)
                /\ outcome' = outcome
    /\ UNCHANGED <<llmName, hasLlm, jinja, lead, inputs, failFirst, tries, built,
                   msgs, retStr, exc, gwLog, trace>>

\* the decorated __call__(**inputs) is entered: retry starts with its tries
Invoke ==
    /\ pc = "ready"
    /\ \E inp \in Bindings : inputs' = inp
    /\ tries' = Tries
    /\ pc' = "build"
    /\ UNCHANGED <<llmName, hasLlm, jinja, segs, lead, doc, ann, parser, failFirst,
                   built, msgs, retStr, exc, outcome, gwLog, trace>>

\* line 118: msgs = self.build_prompt(**inputs), outside the try
BuildStep ==
    /\ pc = "build"
    /\ \E raises \in BOOLEAN :
        LET b == build_prompt(doc, inputs, jinja, raises)
        IN  /\ built' = b
            /\ IF b.kind = "ok"
               THEN /\ msgs' = b.msgs
                    /\ exc' = exc
                    /\ pc' = "call"
                    /\ trace' = Append(trace, "compile_ok")
               ELSE /\ msgs' = msgs
                    /\ exc' = Raised(b.stage, b.msg)
                    /\ pc' = "failed"
                    /\ trace' = Append(trace, "compile_fail")
    /\ UNCHANGED <<llmName, hasLlm, jinja, segs, lead, doc, ann, parser, inputs,
                   failFirst, tries, retStr, outcome, gwLog>>

\* lines 157-159: the schema, then self.llm.call(messages, schema); the stub
\* fails on its first failFirst calls, later it answers or fails
GatewayStep ==
    /\ pc = "call"
    /\ \E r \in Responses \cup {GatewayFail} :
        /\ Len(gwLog) < failFirst => r = GatewayFail
        /\ gwLog' = Append(gwLog, [messages |-> msgs, scheme |-> llm_schema(parser, ann),
                                   resp |-> r])
        /\ IF r = GatewayFail
           THEN /\ exc' = Raised("gateway", GatewayErrorMsg)
                /\ retStr' = retStr
                /\ pc' = "enrich"
                /\ trace' = Append(trace, "gateway_fail")
           ELSE /\ exc' = exc
                /\ retStr' = r
                /\ pc' = "cast"
                /\ trace' = Append(trace, "gateway_ok")
    /\ UNCHANGED <<llmName, hasLlm, jinja, segs, lead, doc, ann, parser, inputs,
                   failFirst, tries, built, msgs, outcome>>

\* line 160 and the return of line 120
CastStep ==
    /\ pc = "cast"
    /\ LET c == cast_result(parser, retStr)
       IN  IF c.ok
           THEN /\ outcome' = [kind |-> "value", value |-> c.value, exc |-> NoExc]
                /\ exc' = exc
                /\ pc' = "returned"
                /\ trace' = Append(trace, "cast_ok")
           ELSE /\ outcome' = outcome
                /\ exc' = Raised("cast", c.msg)
                /\ pc' = "enrich"
                /\ trace' = Append(trace, "cast_fail")
    /\ UNCHANGED <<llmName, hasLlm, jinja, segs, lead, doc, ann, parser, inputs,
                   failFirst, tries, built, msgs, retStr, gwLog>>

\* lines 121-122: the handler builds the prompt string again; an exception
\* of build_string leaves the handler in place of the one being built
EnrichStep ==
    /\ pc = "enrich"
    /\ \E raises \in BOOLEAN :
        LET s == build_string(doc, inputs, jinja, raises)
        IN  IF s.ok
            THEN /\ exc' = [msg |-> Enriched(exc.msg, s.text), stage |-> exc.stage,
                            orig |-> exc.msg, enriched |-> TRUE, secondary |-> FALSE]
                 /\ trace' = Append(trace, "enrich_ok")
            ELSE /\ exc' = [msg |-> s.msg, stage |-> s.stage, orig |-> exc.msg,
                            enriched |-> FALSE, secondary |-> TRUE]
                 /\ trace' = Append(trace, "enrich_fail")
    /\ pc' = "failed"
    /\ UNCHANGED <<llmName, hasLlm, jinja, segs, lead, doc, ann, parser, inputs,
                   failFirst, tries, built, msgs, retStr, outcome, gwLog>>

\* retry: the attempt raised; one try fewer, and the exception goes to the
\* caller when none is left
RetryStep ==
    /\ pc = "failed"
    /\ tries' = tries - 1
    /\ IF GiveUp(tries - 1)
       THEN /\ outcome' = [kind |-> "error", value |-> None, exc |-> exc]
            /\ pc' = "raised"
       ELSE /\ outcome' = outcome
            /\ pc' = "sleep"
    /\ UNCHANGED <<llmName, hasLlm, jinja, segs, lead, doc, ann, parser, inputs,
                   failFirst, built, msgs, retStr, exc, gwLog, trace>>

\* retry: time.sleep(delay), then the next attempt with fresh locals
SleepStep ==
    /\ pc = "sleep"
    /\ trace' = Append(trace, "sleep")
    /\ msgs' = <<>>
    /\ retStr' = None
    /\ exc' = NoExc
    /\ pc' = "build"
    /\ UNCHANGED <<llmName, hasLlm, jinja, segs, lead, doc, ann, parser, inputs,
                   failFirst, tries, built, outcome, gwLog>>

Next ==
    \/ PrompterInit
    \/ PrompterCall
    \/ Invoke
    \/ BuildStep
    \/ GatewayStep
    \/ CastStep
    \/ EnrichStep
    \/ RetryStep
    \/ SleepStep

Spec == Init /\ [][Next]_vars

\* ------------------------------------------ the compilation specification
\* build_prompt alone, on the docstrings of up to MaxSegs segments
InitCompile ==
    /\ pc = "compile"
    /\ Blank
    /\ segs \in SegLists(SegmentPool, MaxSegs)
    /\ lead \in BOOLEAN
    /\ doc = MkDoc(segs, lead)
    /\ inputs \in Bindings
    /\ jinja \in BOOLEAN

CompileStep ==
    /\ pc = "compile"
    /\ \E raises \in BOOLEAN : built' = build_prompt(doc, inputs, jinja, raises)
    /\ pc' = "compiled"
    /\ UNCHANGED <<llmName, hasLlm, jinja, segs, lead, doc, ann, parser, inputs,
                   failFirst, tries, msgs, retStr, exc, outcome, gwLog, trace>>

NextCompile == CompileStep

SpecCompile == InitCompile /\ [][NextCompile]_vars

\* ================================================================ claims
Min(a, b) == IF a <= b THEN a ELSE b
Positions(ev) == {i \in 1..Len(trace) : trace[i] \in ev}
GatewayEvents == {"gateway_ok", "gateway_fail"}
CastEvents == {"cast_ok", "cast_fail"}
CompileEvents == {"compile_ok", "compile_fail"}
Invoked == pc \in {"build", "call", "cast", "enrich", "failed", "sleep", "returned", "raised"}
Ended == pc \in {"returned", "raised"}
Hi == [n \in {"q"} |-> [text |-> <<"hi">>, stateful |-> FALSE]]

\* ---- C1
\* the stub failed on exactly its first failFirst calls, and every attempt's
\* compilation and cast succeeded
StubFailsFirstK ==
    /\ \A i \in 1..Len(gwLog) : (gwLog[i].resp = GatewayFail) <=> (i <= failFirst)
    /\ Positions({"compile_fail", "cast_fail"}) = {}

\* a sleep between every two consecutive gateway calls and none after the last
DelayBetweenAttempts ==
    /\ \A i \in Positions(GatewayEvents), k \in Positions(GatewayEvents) :
          (i < k /\ ~\E m \in Positions(GatewayEvents) : i < m /\ m < k)
              => Cardinality({n \in Positions({"sleep"}) : i < n /\ n < k}) = Delay
    /\ \A n \in Positions({"sleep"}) : \E i \in Positions(GatewayEvents) : i > n

\* C1: with a gateway stub that fails on its first K calls and succeeds
\* afterwards, and compilation and cast always succeeding, an invocation
\* that has ended returned a value iff K < 3, called the gateway exactly
\* min(K+1, 3) times, and slept between every two consecutive attempts and
\* not after the last.
C1_RetryCount ==
    (Ended /\ StubFailsFirstK) =>
        /\ (pc = "returned") <=> (failFirst < Tries)
        /\ Len(gwLog) = Min(failFirst + 1, Tries)
        /\ DelayBetweenAttempts
        /\ Cardinality(Positions({"sleep"})) = Len(gwLog) - 1

C1_Witness ==
    /\ pc = "returned" /\ StubFailsFirstK /\ failFirst = 2 /\ Len(gwLog) = 3

MissingPlaceholder == Invoked /\ References(doc, jinja) /\ "q" \notin DOMAIN inputs

C4_Claim ==
    /\ pc # "start" => llmName = "openai"
    /\ ~(pc = "setup_error" /\ outcome.exc.stage = "decorate")

\* ---- C5
\* C5 as stated: building the pipeline fails exactly when the function has
\* no return type or one that is neither a model class nor a
\* primitive-casting class, and a primitive-casting return type gets the
\* primitive-cast parser.
C5_Claim ==
    (hasLlm /\ pc \in {"ready", "setup_error"}) =>
        /\ (pc = "setup_error") <=> (ann \in {"none", "dict"})
        /\ ann = "int" => parser = "TypingParser"

\* ---- C6
\* the text segment number i of the docstring renders to
RenderedSeg(i) == Render(segs[i], inputs, jinja, FALSE).y

\* a segment of the shape "key: value" with a plain or single flow value
OneKeyDoc(s) ==
    LET t == Strip(s)
        v == SubSeq(t, 4, Len(t))
    IN  /\ Len(t) >= 2
        /\ t[1] \in Words \cup Digits
        /\ t[2] = COLON
        /\ Len(t) > 2 => t[3] = SP
        /\ \A i \in 1..Len(v) : v[i] \in Words \cup Digits \cup {SP, FormatField}
        /\ (v # <<>> /\ Head(v) = FormatField) => Len(v) = 1

RECURSIVE RolesFrom(_)
\* the key of every segment from number i on that does not trim to empty
RolesFrom(i) ==
    IF i > Len(segs) THEN <<>>
    ELSE IF Strip(RenderedSeg(i)) = <<>> THEN RolesFrom(i + 1)
    ELSE <<Strip(RenderedSeg(i))[1]>> \o RolesFrom(i + 1)

\* C6: when every segment of the rendered text that does not trim to empty
\* is a one-key role/content document, compilation returns one Message for
\* each of them, in the order of the text, with the segment's key as role;
\* segments that trim to empty give no Message.
C6_OneMessagePerSegment ==
    (/\ pc = "compiled"
     /\ built.stage # "template"
     /\ \A i \in 1..Len(segs) : Strip(RenderedSeg(i)) = <<>> \/ OneKeyDoc(RenderedSeg(i)))
    => /\ built.kind = "ok"
       /\ [i \in 1..Len(built.msgs) |-> built.msgs[i].role] = RolesFrom(1)

C6_Witness ==
    /\ pc = "compiled" /\ built.kind = "ok"
    /\ segs = <<SegBlank, SegUserFive>> /\ lead
    /\ built.msgs = <<Message("user", <<"5">>)>>

\* ---- C7
\* C7 as stated: the template ">>system: hello\n>>user: {q}" with q bound
\* to hi compiles to the Messages system/hello and user/"hi".
C7_Original ==
    (pc = "compiled" /\ doc = SegNoSpace /\ inputs = Hi) =>
        /\ built.kind = "ok"
        /\ built.msgs = <<Message("system", <<"hello">>),
                          Message("user", <<QUOTE, "hi", QUOTE>>)>>

\* C7 amended: with its turn markers written as the delimiter ">> " (the
\* space included), the template ">> system: hello\n>> user: {q}" with q
\* bound to hi compiles in literal mode to exactly two Messages, system and
\* user in that order, each content the serialized form of its string,
\* quote characters included ("hello" and "hi"); written with ">>" and no
\* space the template is one segment, which the loader rejects.
C7_Amended ==
    /\ (pc = "compiled" /\ ~jinja /\ lead /\ segs = <<SegSystemHello, SegUserField>>
        /\ inputs = Hi)
       => /\ built.kind = "ok"
          /\ built.msgs = <<Message("system", <<QUOTE, "hello", QUOTE>>),
                            Message("user", <<QUOTE, "hi", QUOTE>>)>>
    /\ (pc = "compiled" /\ doc = SegNoSpace /\ inputs = Hi)
       => /\ built.kind = "error"
          /\ built.stage = "parse"

C7_Witness ==
    /\ pc = "compiled" /\ ~jinja /\ lead /\ segs = <<SegSystemHello, SegUserField>>
    /\ inputs = Hi /\ Len(built.msgs) = 2

\* ---- C8
\* C8 as stated: when a segment that does not trim to empty is not valid
\* structured text, or not a document of exactly one key, compilation fails
\* with a message that has both that segment and the whole rendered text.
C8_Claim ==
    (/\ pc = "compiled"
     /\ built.stage # "template"
     /\ \E i \in 1..Len(segs) : Strip(RenderedSeg(i)) # <<>> /\ ~OneKeyDoc(RenderedSeg(i)))
    => /\ built.kind = "error"
       /\ Contains(built.msg, built.y)
       /\ \E i \in 1..Len(segs) :
             /\ Strip(RenderedSeg(i)) # <<>> /\ ~OneKeyDoc(RenderedSeg(i))
             /\ Contains(built.msg, Strip(RenderedSeg(i)))

\* ---- C9
\* C9 as stated: when the prompt cannot be rendered again while the error is
\* being enriched, the failure the attempt raises still has the original
\* error's message.
C9_Claim ==
    (pc = "failed" /\ exc.secondary) => Contains(exc.msg, exc.orig)

\* ---- C10
\* C10: a value is returned only by an attempt whose compile, gateway call
\* and cast succeeded in that order, and it is the cast of the text the
\* gateway returned in that attempt; in an attempt the gateway is called at
\* most once and only after a successful compile, the cast runs only after
\* the gateway returned; an invocation ends with such a value or with an
\* error.
C10_NoPartialResult ==
    /\ pc = "returned" =>
          /\ Len(trace) >= 3
          /\ SubSeq(trace, Len(trace) - 2, Len(trace)) = <<"compile_ok", "gateway_ok", "cast_ok">>
          /\ outcome.kind = "value"
          /\ \E d \in Digits :
                /\ gwLog[Len(gwLog)].resp = JsonValue(d)
                /\ outcome.value = <<"Answer", d>>
    /\ \A i \in Positions(GatewayEvents) : i > 1 /\ trace[i - 1] = "compile_ok"
    /\ \A i \in Positions(CastEvents) : i > 1 /\ trace[i - 1] = "gateway_ok"
    /\ \A i \in Positions(CompileEvents) : i = 1 \/ trace[i - 1] = "sleep"
    /\ Cardinality(Positions(GatewayEvents)) = Len(gwLog)
    /\ Positions({"cast_ok"}) # {} => pc = "returned"
    /\ pc = "raised" => (outcome.kind = "error" /\ outcome.exc.msg # <<>>)
    /\ outcome.kind = "value" => pc = "returned"

C10_Witness ==
    /\ pc = "returned" /\ Len(gwLog) = 2
    /\ gwLog[1].resp = Malformed /\ gwLog[2].resp = JsonValue("7")
    /\ outcome.value = <<"Answer", "7">>

====
